---- MODULE Spec2Model ----
(***************************************************************************)
(* A model of ipython2cwl/repo2cwl.py: the repo2cwl entry point, the batch *)
(* conversion _repo2cwl and the per-notebook step _store_jn_as_script.     *)
(*                                                                         *)
(* Strings are sequences of one-character strings, so that slicing,        *)
(* splitting, joining and replacing are computed as Python computes them.  *)
(***************************************************************************)
EXTENDS Integers, Sequences, FiniteSets, TLC

VARIABLES
    pc,                 \* the statement repo2cwl / _repo2cwl is about to run
    raised,             \* the exception that ended the run, or "none"
    uri,                \* repo2cwl: the repository argument, once parsed
    source_repo,        \* the input repository: notebook relative path -> kind
    local_exists,       \* local_git_directory exists on disk
    files,              \* generated files in the working tree: [path, nb]
    dirs,               \* directories created in the working tree
    exec,               \* paths whose S_IEXEC bit was set
    index,              \* git index of the working tree (relative paths)
    head,               \* tree of the HEAD commit (relative paths)
    ncommits,           \* commits made during the run
    notebooks_paths,    \* _repo2cwl: the discovered notebooks, in walk order
    idx,                \* position of the running for loop (1-based)
    tools,              \* _repo2cwl: the list of descriptors
    output_image_spec,  \* r2d.output_image_spec
    build_state,        \* "not_started", "done" or "failed"
    built_tree,         \* the generated files the image builder was handed
    image_id,           \* repo2cwl: the identifier _repo2cwl returned
    out_files,          \* descriptor files in the output directory: [path, tool]
    writes              \* every descriptor write so far, in order: [path, nb]

vars == <<pc, raised, uri, source_repo, local_exists, files, dirs, exec, index, head,
          ncommits, notebooks_paths, idx, tools, output_image_spec, build_state,
          built_tree, image_id, out_files, writes>>

(***************************************************************************)
(* Bounds and inputs                                                       *)
(***************************************************************************)
MaxNotebooks == 3

IPYNB == <<".", "i", "p", "y", "n", "b">>
CWL == <<".", "c", "w", "l">>

\* Notebooks a repository may hold (relative paths): at the root, in a
\* directory, two levels deep, and names that meet after '/' -> '_'.
NotebookUniverse ==
    { <<"r">> \o IPYNB,
      <<"a", "_", "r">> \o IPYNB,
      <<"a", "/", "r">> \o IPYNB,
      <<"a">> \o IPYNB,
      <<"a", "/", "b", "/", "r">> \o IPYNB }

\* A file of the repository that is no notebook.
README == <<"R", "E", "A", "D", "M", "E">>

\* What the converter makes of a notebook.
Kinds == {"annotated", "plain", "syntax_error", "unsupported"}

\* The repository argument: a local directory that is a git repository, one
\* that is not, a missing one, git@host:x.git, and uris by scheme (http is
\* handled as https is).
Uris == {"file_repo", "file_dir", "file_missing", "git_at", "ssh", "https",
         "ftp"}

\* The image identifiers the builder may produce.
ImageIds == { <<"r", "2", "d", "1">>, <<"r", "2", "d", "2">> }

\* tempfile.mkdtemp(prefix='repo2cwl_') joined with 'repo'; args.output.
LocalGitDir == <<"/", "t", "/", "r", "e", "p", "o">>
OutputDir == <<"/", "o">>

(***************************************************************************)
(* Python string and os.path operations                                    *)
(***************************************************************************)
StartsWith(s, pre) == Len(s) >= Len(pre) /\ SubSeq(s, 1, Len(pre)) = pre

EndsWith(s, suf) ==
    Len(s) >= Len(suf) /\ SubSeq(s, Len(s) - Len(suf) + 1, Len(s)) = suf

\* s[n:]
SliceFrom(s, n) == SubSeq(s, n + 1, Len(s))

\* s[:-n]
DropLast(s, n) == SubSeq(s, 1, Len(s) - n)

\* s.replace(old, new) for one-character old and new
Replace(s, old, new) == [k \in 1..Len(s) |-> IF s[k] = old THEN new ELSE s[k]]

\* s.split(sep)
RECURSIVE Split(_, _)
Split(s, sep) ==
    IF \A k \in 1..Len(s) : s[k] # sep
    THEN <<s>>
    ELSE LET k == CHOOSE j \in 1..Len(s) :
                      s[j] = sep /\ \A m \in 1..(j - 1) : s[m] # sep
         IN <<SubSeq(s, 1, k - 1)>> \o Split(SubSeq(s, k + 1, Len(s)), sep)

\* sep.join(parts)
RECURSIVE Join(_, _)
Join(sep, parts) ==
    IF parts = <<>> THEN <<>>
    ELSE IF Len(parts) = 1 THEN parts[1]
    ELSE parts[1] \o <<sep>> \o Join(sep, Tail(parts))

\* os.path.join(a, b)
PathJoin(a, b) ==
    IF StartsWith(b, <<"/">>) THEN b
    ELSE IF a = <<>> \/ EndsWith(a, <<"/">>) THEN a \o b
    ELSE a \o <<"/">> \o b

\* os.path.basename(p)
Basename(p) ==
    LET slashes == {k \in 1..Len(p) : p[k] = "/"}
        last == IF slashes = {} THEN 0
                ELSE CHOOSE k \in slashes : \A m \in slashes : m <= k
    IN SliceFrom(p, last)

\* os.path.dirname(p)
Dirname(p) ==
    LET slashes == {k \in 1..Len(p) : p[k] = "/"}
        last == IF slashes = {} THEN 0
                ELSE CHOOSE k \in slashes : \A m \in slashes : m <= k
    IN IF last = 0 THEN <<>> ELSE SubSeq(p, 1, last - 1)

\* os.path.relpath(path, start) for a path below start
Relpath(path, start) ==
    IF StartsWith(path, start \o <<"/">>)
    THEN SliceFrom(path, Len(start) + 1)
    ELSE path

\* the directories os.makedirs(p) makes sure exist: p and its ancestors
RECURSIVE Ancestors(_)
Ancestors(p) ==
    IF p = <<>> \/ p = <<"/">> THEN {}
    ELSE {p} \cup Ancestors(Dirname(p))

(***************************************************************************)
(* The converter (ipython2cwl/cwltoolextractor.py)                         *)
(***************************************************************************)
None == <<>>

\* AnnotatedIPython2CWLToolConverter.from_jupyter_notebook_node: parses the
\* flattened notebook and collects its annotated variables.
from_jupyter_notebook_node(kind) ==
    [exc |-> IF kind = "syntax_error" THEN "SyntaxError" ELSE "none",
     variables |-> IF kind \in {"annotated", "unsupported"} THEN 1 ELSE 0]

\* converter._wrap_script_to_method: rewrites the parsed tree.
_wrap_script_to_method(kind) ==
    [exc |-> IF kind = "unsupported" THEN "UnsupportedPatternError" ELSE "none"]

\* converter.cwl_command_line_tool(docker_image_id): the descriptor, with the
\* identifier it is given as its container reference.  nb (the notebook the
\* descriptor was built for) and patches (the assignments made to the
\* container reference after construction) are history fields.
cwl_command_line_tool(docker_image_id, nb) ==
    [baseCommand |-> <<>>, dockerImageId |-> docker_image_id,
     nb |-> nb, patches |-> 0]

(***************************************************************************)
(* The working tree                                                        *)
(***************************************************************************)
\* the files of the input repository (relative paths)
TreeFiles == DOMAIN source_repo \cup {README}

IsFile(p) == \E f \in files : f.path = p

\* open(p, 'w').write(...): p is created or truncated
WriteFile(fs, p, nb) == {f \in fs : f.path # p} \cup {[path |-> p, nb |-> nb]}

\* os.makedirs(p, exist_ok=True) fails when p or an ancestor is a file
MakedirsFails(p) == \E a \in Ancestors(p) : IsFile(a)

\* open(p, 'w') fails when p is a directory or its directory is missing
OpenFails(p, ds) ==
    IF p \in ds THEN "IsADirectoryError"
    ELSE IF Dirname(p) \notin ds THEN "FileNotFoundError"
    ELSE "none"

(***************************************************************************)
(* _get_notebook_paths_from_dir                                            *)
(***************************************************************************)
\* d is p's directory or one above it
IsUnder(p, d) == d = <<>> \/ StartsWith(p, d \o <<"/">>)

\* os.walk is top-down: a directory's files come before the files of its
\* subdirectories, and a subdirectory is walked to its end before the next.
TopDown(s) ==
    /\ \A m, n \in DOMAIN s :
          (Dirname(s[m]) # Dirname(s[n]) /\ IsUnder(s[n], Dirname(s[m])))
              => m < n
    /\ \A m, k, n \in DOMAIN s :
          (m < k /\ k < n)
              => \A d \in Ancestors(Dirname(s[m])) \cap Ancestors(Dirname(s[n])) :
                     IsUnder(s[k], d)

\* the orders in which os.walk may list the notebooks below dir_path
_get_notebook_paths_from_dir(dir_path) ==
    LET found == {f \in TreeFiles : EndsWith(f, IPYNB)}
        n == Cardinality(found)
    IN { [k \in 1..n |-> PathJoin(dir_path, s[k])] :
           s \in { t \in [1..n -> found] :
                     /\ \A a, b \in 1..n : t[a] = t[b] => a = b
                     /\ TopDown(t) } }

(***************************************************************************)
(* _store_jn_as_script                                                     *)
(***************************************************************************)
\* line 43
script_relative_path(notebook_path, git_directory_absolute_path) ==
    DropLast(Relpath(notebook_path, git_directory_absolute_path), 6)

\* line 46: the directory made for a notebook in a subdirectory
script_parent_directory(bin_absolute_path, rel) ==
    LET parts == Split(rel, "/")
    IN PathJoin(bin_absolute_path, Join("/", SubSeq(parts, 1, Len(parts) - 1)))

\* a fault: the script is written flat into cwl/bin, its directories dropped
script_absolute_name_Flat(bin_absolute_path, rel) ==
    PathJoin(bin_absolute_path, Basename(rel))

\* lines 44-52: where the script is written
script_absolute_name(bin_absolute_path, rel) ==
    IF Len(Split(rel, "/")) > 1
    THEN PathJoin(script_parent_directory(bin_absolute_path, rel), Basename(rel))
    ELSE PathJoin(bin_absolute_path, rel)

\* line 65: the file that is made executable
in_git_dir_script_file(bin_absolute_path, rel) == PathJoin(bin_absolute_path, rel)

\* a fault: the test of line 40 never holds
HasNoVariables_Never(converter) == converter.variables < 0

\* line 40
HasNoVariables(converter) == converter.variables = 0

StoreResult(exc, tool, script_name, fs, ds, ex) ==
    [exc |-> exc, tool |-> tool, script_name |-> script_name,
     files |-> fs, dirs |-> ds, exec |-> ex]

\* The whole function: the exception it raises or the pair it returns, and
\* the working tree it leaves.
_store_jn_as_script(notebook_path, git_directory_absolute_path, bin_absolute_path, image) ==
    LET nb == Relpath(notebook_path, git_directory_absolute_path)
        kind == source_repo[nb]
        converter == from_jupyter_notebook_node(kind)
        rel == script_relative_path(notebook_path, git_directory_absolute_path)
        nested == Len(Split(rel, "/")) > 1
        parent == script_parent_directory(bin_absolute_path, rel)
        ds == IF nested THEN dirs \cup Ancestors(parent) ELSE dirs
        target == script_absolute_name(bin_absolute_path, rel)
        fs == WriteFile(files, target, nb)
        in_git == in_git_dir_script_file(bin_absolute_path, rel)
        fail(e, d) == StoreResult(e, None, None, files, d, exec)
    IN IF converter.exc # "none" THEN fail(converter.exc, dirs)
       ELSE IF HasNoVariables(converter)
       THEN StoreResult("none", None, None, files, dirs, exec)
       ELSE IF nested /\ MakedirsFails(parent) THEN fail("FileExistsError", dirs)
       ELSE IF _wrap_script_to_method(kind).exc # "none"
       THEN fail(_wrap_script_to_method(kind).exc, ds)
       ELSE IF OpenFails(target, ds) # "none" THEN fail(OpenFails(target, ds), ds)
       ELSE IF ~(\E f \in fs : f.path = in_git) /\ in_git \notin ds
       THEN StoreResult("FileNotFoundError", None, None, fs, ds, exec)
       ELSE StoreResult("none", <<cwl_command_line_tool(image, nb)>>, <<rel>>,
                        fs, ds, exec \cup {in_git})

(***************************************************************************)
(* Control flow                                                            *)
(***************************************************************************)
\* a fault: the working tree is removed before the descriptors are written
repo2cwl_body_CleanFirst == <<"acquire", "_repo2cwl", "clean", "write", "done">>

\* repo2cwl, lines 95-137: the statements in program order
repo2cwl_body == <<"acquire", "_repo2cwl", "write", "clean", "done">>

\* a fault: the image is built before the notebooks are converted
_repo2cwl_body_BuildFirst ==
    <<"setup", "build", "loop", "commit", "fix", "return">>

\* a fault: the descriptors are patched before the image is built
_repo2cwl_body_FixFirst ==
    <<"setup", "loop", "commit", "fix", "build", "return">>

\* _repo2cwl, lines 147-172: the statements in program order
_repo2cwl_body == <<"setup", "loop", "commit", "build", "fix", "return">>

Position(body, p) == CHOOSE k \in DOMAIN body : body[k] = p

InBody(body, p) == \E k \in DOMAIN body : body[k] = p

\* the statement that follows p
After(p) ==
    LET outer == repo2cwl_body
        inner == _repo2cwl_body
        back == outer[Position(outer, "_repo2cwl") + 1]
        nxt == outer[Position(outer, p) + 1]
    IN IF InBody(inner, p)
       THEN IF Position(inner, p) < Len(inner)
            THEN inner[Position(inner, p) + 1]
            ELSE back
       ELSE IF nxt = "_repo2cwl" THEN inner[1] ELSE nxt

Goto(p) == pc' = p /\ idx' = 1 /\ raised' = raised

\* an exception no handler catches ends the run
Raise(e) == pc' = "raised" /\ raised' = e /\ idx' = idx

(***************************************************************************)
(* repo2cwl, lines 95-124: the working tree is acquired                    *)
(***************************************************************************)
\* lines 99-101: git@host:x.git is reparsed as ssh://git@host:x.git
Parsed(u) == IF u = "git_at" THEN "ssh" ELSE u

\* uri.scheme
Scheme(u) ==
    IF Parsed(u) \in {"file_repo", "file_dir", "file_missing"} THEN "file"
    ELSE Parsed(u)

supported_schemes == {"file", "http", "https", "ssh"}

\* the directories of a tree copied or cloned to dir_path
TreeDirs(dir_path) ==
    UNION {Ancestors(Dirname(PathJoin(dir_path, f))) : f \in TreeFiles}

\* lines 104-105 and 108-109
AcquireRaises ==
    /\ pc = "acquire"
    /\ \E u \in Uris :
          /\ \/ Scheme(u) \notin supported_schemes
             \/ u = "file_missing"
          /\ uri' = Parsed(u)
    /\ Raise("ValueError")
    /\ UNCHANGED <<source_repo, local_exists, files, dirs, exec, index, head,
                   ncommits, notebooks_paths, tools, output_image_spec,
                   build_state, built_tree, image_id, out_files, writes>>

\* lines 110-117: a local directory is copied; one that is no git repository
\* is initialised, everything is added and committed
AcquireCopy ==
    /\ pc = "acquire"
    /\ \E u \in {"file_repo", "file_dir"} :
          /\ Scheme(u) \in supported_schemes
          /\ uri' = Parsed(u)
          /\ local_exists' = TRUE
          /\ dirs' = TreeDirs(LocalGitDir)
          /\ index' = TreeFiles
          /\ head' = TreeFiles
          /\ ncommits' = IF u = "file_dir" THEN ncommits + 1 ELSE ncommits
    /\ Goto(After("acquire"))
    /\ UNCHANGED <<source_repo, files, exec, notebooks_paths, tools,
                   output_image_spec, build_state, built_tree, image_id,
                   out_files, writes>>

\* lines 118-124: the repository is cloned
AcquireClone ==
    /\ pc = "acquire"
    /\ \E u \in Uris \ {"file_repo", "file_dir", "file_missing"} :
          /\ Scheme(u) \in supported_schemes
          /\ uri' = Parsed(u)
    /\ local_exists' = TRUE
    /\ dirs' = TreeDirs(LocalGitDir)
    /\ index' = TreeFiles
    /\ head' = TreeFiles
    /\ Goto(After("acquire"))
    /\ UNCHANGED <<source_repo, files, exec, ncommits, notebooks_paths, tools,
                   output_image_spec, build_state, built_tree, image_id,
                   out_files, writes>>

\* lines 118-124: git.Repo.clone_from fails
AcquireCloneFails ==
    /\ pc = "acquire"
    /\ \E u \in Uris \ {"file_repo", "file_dir", "file_missing"} :
          /\ Scheme(u) \in supported_schemes
          /\ uri' = Parsed(u)
    /\ Raise("GitCommandError")
    /\ UNCHANGED <<source_repo, local_exists, files, dirs, exec, index, head,
                   ncommits, notebooks_paths, tools, output_image_spec,
                   build_state, built_tree, image_id, out_files, writes>>

(***************************************************************************)
(* _repo2cwl                                                               *)
(***************************************************************************)
\* line 150
bin_path == PathJoin(PathJoin(LocalGitDir, <<"c", "w", "l">>), <<"b", "i", "n">>)

\* lines 147-152
Setup ==
    /\ pc = "setup"
    /\ dirs' = dirs \cup Ancestors(bin_path)
    /\ notebooks_paths' \in _get_notebook_paths_from_dir(LocalGitDir)
    /\ Goto(After("setup"))
    /\ UNCHANGED <<uri, source_repo, local_exists, files, exec, index, head,
                   ncommits, tools, output_image_spec, build_state, built_tree,
                   image_id, out_files, writes>>

\* line 164
WithBaseCommand(tool, script_name) ==
    [tool EXCEPT !.baseCommand =
        PathJoin(PathJoin(PathJoin(<<"/", "a", "p", "p">>, <<"c", "w", "l">>),
                          <<"b", "i", "n">>), script_name)]

\* lines 155-165: one iteration of the loop over the notebooks
LoopStep ==
    /\ pc = "loop"
    /\ idx <= Len(notebooks_paths)
    /\ LET r == _store_jn_as_script(notebooks_paths[idx], LocalGitDir, bin_path,
                                    output_image_spec)
       IN /\ files' = r.files
          /\ dirs' = r.dirs
          /\ exec' = r.exec
          /\ IF r.exc # "none"
             THEN Raise(r.exc) /\ tools' = tools
             ELSE /\ pc' = pc
                  /\ raised' = raised
                  /\ idx' = idx + 1
                  /\ tools' = IF r.tool = None \/ r.script_name = None
                              THEN tools
                              ELSE Append(tools,
                                          WithBaseCommand(r.tool[1], r.script_name[1]))
    /\ UNCHANGED <<uri, source_repo, local_exists, index, head, ncommits,
                   notebooks_paths, output_image_spec, build_state, built_tree,
                   image_id, out_files, writes>>

LoopExit ==
    /\ pc = "loop"
    /\ idx > Len(notebooks_paths)
    /\ Goto(After("loop"))
    /\ UNCHANGED <<uri, source_repo, local_exists, files, dirs, exec, index, head,
                   ncommits, notebooks_paths, tools, output_image_spec,
                   build_state, built_tree, image_id, out_files, writes>>

\* line 166: index.commit records the index as it is
Commit ==
    /\ pc = "commit"
    /\ head' = index
    /\ ncommits' = ncommits + 1
    /\ Goto(After("commit"))
    /\ UNCHANGED <<uri, source_repo, local_exists, files, dirs, exec, index,
                   notebooks_paths, tools, output_image_spec, build_state,
                   built_tree, image_id, out_files, writes>>

\* line 168: the build succeeds and names the image
Build ==
    /\ pc = "build"
    /\ \E id \in ImageIds : output_image_spec' = id
    /\ build_state' = "done"
    /\ built_tree' = files
    /\ Goto(After("build"))
    /\ UNCHANGED <<uri, source_repo, local_exists, files, dirs, exec, index, head,
                   ncommits, notebooks_paths, tools, image_id, out_files, writes>>

\* a fault: the build's exception is caught and the run goes on
BuildFails_Caught ==
    /\ pc = "build"
    /\ build_state' = "failed"
    /\ built_tree' = files
    /\ Goto(After("build"))
    /\ UNCHANGED <<uri, source_repo, local_exists, files, dirs, exec, index, head,
                   ncommits, notebooks_paths, tools, output_image_spec, image_id,
                   out_files, writes>>

\* line 168: the build raises
BuildFails ==
    /\ pc = "build"
    /\ build_state' = "failed"
    /\ built_tree' = files
    /\ Raise("BuildError")
    /\ UNCHANGED <<uri, source_repo, local_exists, files, dirs, exec, index, head,
                   ncommits, notebooks_paths, tools, output_image_spec, image_id,
                   out_files, writes>>

\* a fault: the loop of line 170 leaves the container reference as it was
WithDockerImageId_Kept(tool, spec) == [tool EXCEPT !.patches = @ + 1]

\* line 171
WithDockerImageId(tool, spec) ==
    [tool EXCEPT !.dockerImageId = spec, !.patches = @ + 1]

\* lines 170-171: one iteration of the loop over the descriptors
FixStep ==
    /\ pc = "fix"
    /\ idx <= Len(tools)
    /\ tools' = [tools EXCEPT ![idx] = WithDockerImageId(@, output_image_spec)]
    /\ idx' = idx + 1
    /\ UNCHANGED <<pc, raised, uri, source_repo, local_exists, files, dirs, exec,
                   index, head, ncommits, notebooks_paths, output_image_spec,
                   build_state, built_tree, image_id, out_files, writes>>

FixExit ==
    /\ pc = "fix"
    /\ idx > Len(tools)
    /\ Goto(After("fix"))
    /\ UNCHANGED <<uri, source_repo, local_exists, files, dirs, exec, index, head,
                   ncommits, notebooks_paths, tools, output_image_spec,
                   build_state, built_tree, image_id, out_files, writes>>

\* lines 172 and 126: (image_id, cwl_tools) is returned to repo2cwl
Return ==
    /\ pc = "return"
    /\ image_id' = output_image_spec
    /\ Goto(After("return"))
    /\ UNCHANGED <<uri, source_repo, local_exists, files, dirs, exec, index, head,
                   ncommits, notebooks_paths, tools, output_image_spec,
                   build_state, built_tree, out_files, writes>>

(***************************************************************************)
(* repo2cwl, lines 128-137                                                 *)
(***************************************************************************)
\* lines 129-130
tool_filename(tool) ==
    PathJoin(OutputDir,
             Replace(SliceFrom(tool.baseCommand,
                               Len(<<"/", "a", "p", "p", "/", "c", "w", "l", "/",
                                     "b", "i", "n", "/">>)),
                     "/", "_") \o CWL)

\* lines 128-133: one iteration of the loop over the descriptors
WriteStep ==
    /\ pc = "write"
    /\ idx <= Len(tools)
    /\ LET tool == tools[idx]
           name == tool_filename(tool)
       IN /\ out_files' = {f \in out_files : f.path # name}
                              \cup {[path |-> name, tool |-> tool]}
          /\ writes' = Append(writes, [path |-> name, nb |-> tool.nb])
    /\ idx' = idx + 1
    /\ UNCHANGED <<pc, raised, uri, source_repo, local_exists, files, dirs, exec,
                   index, head, ncommits, notebooks_paths, tools,
                   output_image_spec, build_state, built_tree, image_id>>

WriteExit ==
    /\ pc = "write"
    /\ idx > Len(tools)
    /\ Goto(After("write"))
    /\ UNCHANGED <<uri, source_repo, local_exists, files, dirs, exec, index, head,
                   ncommits, notebooks_paths, tools, output_image_spec,
                   build_state, built_tree, image_id, out_files, writes>>

\* lines 135-137: shutil.rmtree(local_git_directory); return 0
Clean ==
    /\ pc = "clean"
    /\ local_exists' = FALSE
    /\ files' = {}
    /\ exec' = {}
    /\ dirs' = {d \in dirs : ~IsUnder(d \o <<"/">>, LocalGitDir)}
    /\ Goto(After("clean"))
    /\ UNCHANGED <<uri, source_repo, index, head, ncommits, notebooks_paths, tools,
                   output_image_spec, build_state, built_tree, image_id,
                   out_files, writes>>

(***************************************************************************)
(* Specification                                                           *)
(***************************************************************************)
Init ==
    /\ pc = repo2cwl_body[1]
    /\ raised = "none"
    /\ uri = "unparsed"
    /\ \E S \in SUBSET NotebookUniverse :
          /\ Cardinality(S) <= MaxNotebooks
          /\ source_repo \in [S -> Kinds]
    /\ local_exists = FALSE
    /\ files = {}
    /\ dirs = {}
    /\ exec = {}
    /\ index = {}
    /\ head = {}
    /\ ncommits = 0
    /\ notebooks_paths = <<>>
    /\ idx = 1
    /\ tools = <<>>
    /\ output_image_spec = <<>>
    /\ build_state = "not_started"
    /\ built_tree = {}
    /\ image_id = <<>>
    /\ out_files = {}
    /\ writes = <<>>

Next ==
    \/ AcquireRaises
    \/ AcquireCopy
    \/ AcquireClone
    \/ AcquireCloneFails
    \/ Setup
    \/ LoopStep
    \/ LoopExit
    \/ Commit
    \/ Build
    \/ BuildFails
    \/ FixStep
    \/ FixExit
    \/ Return
    \/ WriteStep
    \/ WriteExit
    \/ Clean

Spec == Init /\ [][Next]_vars

(***************************************************************************)
(* Properties                                                              *)
(***************************************************************************)
\* the notebook at position k of notebooks_paths, as a path of the repository
NotebookAt(k) == Relpath(notebooks_paths[k], LocalGitDir)

\* the converter finds at least one annotated variable in notebook nb
HasVariables(nb) == from_jupyter_notebook_node(source_repo[nb]).variables > 0

\* the converter reads notebook nb and finds no annotated variable in it
FindsNoVariables(nb) ==
    /\ from_jupyter_notebook_node(source_repo[nb]).exc = "none"
    /\ from_jupyter_notebook_node(source_repo[nb]).variables = 0

\* _repo2cwl has returned to repo2cwl
Returned == pc \in {"write", "clean", "done"}

\* the commit of line 166 has been made
AutoCommitted == ncommits = (IF uri = "file_dir" THEN 2 ELSE 1)

DescriptorsOf(nb) == {k \in DOMAIN tools : tools[k].nb = nb}

\* C1: once the build has started, no two descriptors of the batch derive
\* the same output path, and no output file written for one notebook is
\* written again for another notebook.
C1_CollisionDetected ==
    /\ build_state # "not_started" =>
          \A m, n \in DOMAIN tools :
              m # n => tool_filename(tools[m]) # tool_filename(tools[n])
    /\ \A m, n \in DOMAIN writes :
          writes[m].path = writes[n].path => writes[m].nb = writes[n].nb

\* C2: when the conversion of one notebook fails with SyntaxError or
\* UnsupportedPatternError, every later notebook with annotated variables
\* still gets its descriptor in the tool list.
C2_FailureDoesNotAbortBatch ==
    raised \in {"SyntaxError", "UnsupportedPatternError"} =>
        \A n \in DOMAIN notebooks_paths :
            (n > idx /\ source_repo[NotebookAt(n)] = "annotated")
                => DescriptorsOf(NotebookAt(n)) # {}

\* C3: the loop iteration for a notebook without annotated variables writes
\* no file, creates no directory and adds no descriptor; no script exists for
\* such a notebook; and the returned list holds exactly one descriptor for
\* each notebook with annotated variables and none for the others.
C3_SkippedNotebook ==
    /\ [](\A f \in files : HasVariables(f.nb))
    /\ [](Returned =>
            \A nb \in DOMAIN source_repo :
                Cardinality(DescriptorsOf(nb)) = IF HasVariables(nb) THEN 1 ELSE 0)
    /\ [][(/\ pc = "loop"
           /\ idx <= Len(notebooks_paths)
           /\ FindsNoVariables(NotebookAt(idx)))
              => (/\ files' = files
                  /\ dirs' = dirs
                  /\ exec' = exec
                  /\ tools' = tools
                  /\ pc' = "loop"
                  /\ idx' = idx + 1)]_vars

\* a run that returned with one notebook skipped and one converted
C3_Witness ==
    /\ pc = "done"
    /\ Len(tools) = 1
    /\ \E nb \in DOMAIN source_repo : FindsNoVariables(nb)

\* C4: when _repo2cwl has returned (image_id, tools), the container
\* reference of every descriptor is the returned image identifier.
C4_SharedContainerReference ==
    Returned =>
        /\ image_id \in ImageIds
        /\ \A k \in DOMAIN tools : tools[k].dockerImageId = image_id
        /\ \A f \in out_files : f.tool.dockerImageId = image_id

C4_Witness == Returned /\ Len(tools) >= 2

\* C5: the container reference of a descriptor is unset until it is
\* assigned; it is assigned at most once, only once the build has completed,
\* and exactly once by the time _repo2cwl returns.
C5_PatchedOnceAfterBuild ==
    \A k \in DOMAIN tools :
        /\ tools[k].patches <= 1
        /\ tools[k].patches = 0 => tools[k].dockerImageId = <<>>
        /\ tools[k].patches > 0 => build_state = "done"
        /\ Returned => tools[k].patches = 1

\* the fix loop between two descriptors: one patched, one pending
C5_Witness ==
    /\ pc = "fix"
    /\ Len(tools) >= 2
    /\ tools[1].patches = 1
    /\ tools[2].patches = 0

\* C6: when the build starts, no notebook is left that failed or was not
\* processed, the tree handed to the builder holds the script of every
\* notebook with annotated variables, and afterwards no script is written and
\* no descriptor is added.
C6_BuildAfterAllScripts ==
    build_state # "not_started" =>
        /\ \A nb \in DOMAIN source_repo :
              /\ \E k \in DOMAIN notebooks_paths : NotebookAt(k) = nb
              /\ source_repo[nb] \in {"annotated", "plain"}
              /\ HasVariables(nb) =>
                    /\ DescriptorsOf(nb) # {}
                    /\ \E f \in built_tree :
                          /\ f.nb = nb
                          /\ StartsWith(f.path, bin_path \o <<"/">>)
        /\ local_exists => files = built_tree
        /\ Len(tools) = Cardinality(built_tree)

C6_Witness ==
    /\ build_state = "done"
    /\ Cardinality(built_tree) >= 2
    /\ \E nb \in DOMAIN source_repo : source_repo[nb] = "plain"

\* C7: when the build has failed, the run has ended and no descriptor file
\* has been written.
C7_BuildFailureAborts ==
    build_state = "failed" =>
        /\ pc = "raised"
        /\ out_files = {}
        /\ writes = <<>>

C7_Witness == build_state = "failed" /\ raised = "BuildError" /\ Len(tools) >= 2

\* C8: a generated script of notebook p.ipynb is the file cwl/bin/p of the
\* working tree, and the descriptor of p.ipynb has baseCommand /app/cwl/bin/p
\* and that file, written for p.ipynb, is executable.
C8_OneScriptPath ==
    /\ \A f \in files : f.path = bin_path \o <<"/">> \o DropLast(f.nb, 6)
    /\ \A k \in DOMAIN tools :
          LET p == DropLast(tools[k].nb, 6)
          IN /\ tools[k].nb = p \o IPYNB
             /\ tools[k].baseCommand =
                    <<"/", "a", "p", "p", "/", "c", "w", "l", "/", "b", "i", "n",
                      "/">> \o p
             /\ local_exists =>
                    /\ [path |-> LocalGitDir \o <<"/", "c", "w", "l", "/", "b",
                                                  "i", "n", "/">> \o p,
                        nb |-> tools[k].nb] \in files
                    /\ (LocalGitDir \o <<"/", "c", "w", "l", "/", "b", "i", "n",
                                         "/">> \o p) \in exec

\* descriptors for a notebook at the root and for one two directories deep
C8_Witness ==
    /\ pc = "write"
    /\ \E k \in DOMAIN tools : tools[k].nb = <<"r">> \o IPYNB
    /\ \E k \in DOMAIN tools : tools[k].nb = <<"a", "/", "b", "/", "r">> \o IPYNB

\* C9: once the commit of line 166 is made, every script generated in the
\* working tree is in the committed tree.
C9_CommitHoldsScripts ==
    (AutoCommitted /\ local_exists) =>
        \A f \in files : Relpath(f.path, LocalGitDir) \in head

\* C10: when repo2cwl has returned 0 the working tree is gone and every
\* descriptor has been written; the tree is removed only after _repo2cwl
\* returned and the descriptors were written, and no descriptor is written
\* once it is removed.
C10_CleanupLast ==
    /\ [](pc = "done" =>
            /\ ~local_exists
            /\ Len(writes) = Len(tools)
            /\ \A k \in DOMAIN tools :
                  \E f \in out_files : f.path = tool_filename(tools[k]))
    /\ [][/\ (local_exists /\ ~local_exists') =>
                 (Returned /\ Len(writes) = Len(tools))
          /\ writes' # writes => (local_exists /\ local_exists')]_vars

C10_Witness == pc = "done" /\ Len(writes) >= 2

====
